---- MODULE Spec2Model ----
(***************************************************************************)
(* Model of the JWT authentication middlewares of package authentication   *)
(* (src/authentication/middlewares.go): Verify / verify / verifyRequest,   *)
(* Authenticate, RequiresRole and hasRole, chained in front of a terminal  *)
(* handler.                                                                *)
(*                                                                         *)
(* A credential string is modelled as a sequence: <<>> is the empty string *)
(* "" and <<p>> is a non-empty string whose content p is what the Decoder  *)
(* returns for it (the Decoder is a deterministic function of the string   *)
(* and of the process-wide key material).                                  *)
(***************************************************************************)
EXTENDS Naturals, Sequences, FiniteSets

VARIABLES
    findTokenFns,   \* configured extraction strategies, in order
    chain,          \* configured middleware stages, outermost first
    live,           \* identifiers of the requests the server handles
    req,            \* per request: the inbound request (or NoRequest)
    ctx,            \* per request: the context, a stack of key/value pairs
    pos,            \* per request: index of the stage that runs next
    resp,           \* per request: the response written (or NoResponse)
    log             \* per request: what every stage that ran did

vars == <<findTokenFns, chain, live, req, ctx, pos, resp, log>>

----------------------------------------------------------------------------
(* Bounds *)

MaxRoles == 2

MaxGates == 2

----------------------------------------------------------------------------
(* Values *)

Roles == {"admin", "editor"}

Methods == {"HS256", "RS256"}

signer == "HS256"

StatusUnauthorized == 401

RECURSIVE SeqsUpTo(_, _)
SeqsUpTo(S, n) ==
    IF n = 0 THEN {<<>>}
    ELSE LET shorter == SeqsUpTo(S, n - 1)
         IN  shorter \cup {Append(s, x) : s \in shorter, x \in S}

RoleLists == SeqsUpTo(Roles, MaxRoles)

\* jwt.MapClaims: shaped = FALSE is a claim set AppClaims cannot be parsed from
RawClaims ==
    {[shaped |-> TRUE, sub |-> "acct", roles |-> rl] : rl \in RoleLists}
        \cup {[shaped |-> FALSE, sub |-> "", roles |-> <<>>]}

EmptyRawClaims == [shaped |-> FALSE, sub |-> "", roles |-> <<>>]

\* *jwt.Token
NilToken == [nil |-> TRUE, Method |-> "", Valid |-> FALSE, Claims |-> EmptyRawClaims]

Tokens == [nil : {FALSE}, Method : Methods, Valid : BOOLEAN, Claims : RawClaims]

\* error values
NilErr == [kind |-> "nil", Errors |-> {}]

Sentinel(name) == [kind |-> name, Errors |-> {}]

ErrNoTokenFound == Sentinel("ErrNoTokenFound")
ErrExpired == Sentinel("ErrExpired")
ErrIATInvalid == Sentinel("ErrIATInvalid")
ErrNBFInvalid == Sentinel("ErrNBFInvalid")
ErrAlgoInvalid == Sentinel("ErrAlgoInvalid")

\* causes a *jwt.ValidationError reports in its Errors bit field
ValidationCauses ==
    {"ValidationErrorExpired", "ValidationErrorIssuedAt",
     "ValidationErrorNotValidYet", "ValidationErrorSignatureInvalid"}

DecodeErrors ==
    {[kind |-> "ValidationError", Errors |-> c] : c \in SUBSET ValidationCauses}
        \cup {[kind |-> "error", Errors |-> {}]}

\* what the Decoder can return: (token, nil) or (token-or-nil, error)
PartialToken ==
    [nil |-> FALSE, Method |-> signer, Valid |-> FALSE,
     Claims |-> [shaped |-> TRUE, sub |-> "acct", roles |-> <<"admin">>]]

DecodeResults ==
    {[token |-> t, err |-> NilErr] : t \in Tokens}
        \cup {[token |-> t, err |-> e] : t \in {NilToken, PartialToken}, e \in DecodeErrors}

EmptyString == <<>>

Credentials == {EmptyString} \cup {<<d>> : d \in DecodeResults}

----------------------------------------------------------------------------
(* Requests *)

DefaultFns == <<"TokenFromQuery", "TokenFromHeader", "TokenFromCookie">>

\* an Authorization header: scheme and value; absent is scheme ""
NoHeader == [scheme |-> "", value |-> EmptyString]

Bearer(c) == [scheme |-> "BEARER", value |-> c]

Basic(c) == [scheme |-> "BASIC", value |-> c]

NoRequest == [present |-> FALSE, query |-> EmptyString, header |-> NoHeader, cookie |-> EmptyString]

Request(q, h, c) == [present |-> TRUE, query |-> q, header |-> h, cookie |-> c]

\* reference credentials carried by the channels that are not under study
GoodToken(rl) ==
    [nil |-> FALSE, Method |-> signer, Valid |-> TRUE,
     Claims |-> [shaped |-> TRUE, sub |-> "acct", roles |-> rl]]

GoodCredential == <<[token |-> GoodToken(<<"admin">>), err |-> NilErr]>>

RefCredentials == {EmptyString, GoodCredential}

RefHeaders == {NoHeader, Basic(GoodCredential), Bearer(GoodCredential)}

\* the requests a client sends: one channel carries any credential, the
\* other two carry nothing or a reference credential
RequestInputs ==
    {Request(q, h, c) : q \in Credentials, h \in RefHeaders, c \in RefCredentials}
        \cup {Request(q, Bearer(x), c) :
                q \in RefCredentials, x \in Credentials \ {EmptyString}, c \in RefCredentials}
        \cup {Request(q, h, c) : q \in RefCredentials, h \in RefHeaders, c \in Credentials}

\* ja.TokenFromQuery, ja.TokenFromHeader, ja.TokenFromCookie
TokenFromQuery(r) == r.query

TokenFromHeader(r) == IF r.header.scheme = "BEARER" THEN r.header.value ELSE EmptyString

TokenFromCookie(r) == r.cookie

Extract(fn, r) ==
    CASE fn = "TokenFromQuery" -> TokenFromQuery(r)
      [] fn = "TokenFromHeader" -> TokenFromHeader(r)
      [] fn = "TokenFromCookie" -> TokenFromCookie(r)

----------------------------------------------------------------------------
(* Request context: context.WithValue chains; a lookup finds the value     *)
(* attached last under the key.                                            *)

EmptyContext == <<>>

WithValue(c, key, val) == Append(c, [key |-> key, val |-> val])

HasValue(c, key) == \E i \in DOMAIN c : c[i].key = key

Value(c, key) ==
    LET i == CHOOSE k \in DOMAIN c :
                 /\ c[k].key = key
                 /\ \A j \in DOMAIN c : c[j].key = key => j <= k
    IN  c[i].val

\* AppClaims and its zero value
EmptyAppClaims == [Sub |-> "", Roles |-> <<>>]

NewContext(c, token, err) == WithValue(c, "TokenCtxKey", [token |-> token, err |-> err])

TokenFromContext(c) ==
    IF HasValue(c, "TokenCtxKey")
    THEN LET o == Value(c, "TokenCtxKey")
         IN  [token |-> o.token,
              claims |-> IF o.token.nil THEN EmptyRawClaims ELSE o.token.Claims,
              err |-> o.err]
    ELSE [token |-> NilToken, claims |-> EmptyRawClaims, err |-> NilErr]

AppClaimsFromCtx(c) ==
    IF HasValue(c, "AccessClaimsCtxKey")
    THEN Value(c, "AccessClaimsCtxKey")
    ELSE EmptyAppClaims

ErrClaimsParse == Sentinel("ErrClaimsParse")

ParseClaims(claims) ==
    IF claims.shaped
    THEN [c |-> [Sub |-> claims.sub, Roles |-> claims.roles], err |-> NilErr]
    ELSE [c |-> EmptyAppClaims, err |-> ErrClaimsParse]

----------------------------------------------------------------------------
(* verifyRequest *)

Decode(tokenStr) == tokenStr[1]

\* findToken without the break: every strategy is called, the last one wins
findTokenNoBreak(fns, r, i) ==
    [tokenStr |-> IF i > Len(fns) THEN EmptyString ELSE Extract(fns[Len(fns)], r),
     called |-> Len(fns)]

\* the loop over findTokenFns, from strategy i on: the string it ends with
\* and the number of strategies it has called
RECURSIVE findToken(_, _, _)
findToken(fns, r, i) ==
    IF i > Len(fns)
    THEN [tokenStr |-> EmptyString, called |-> Len(fns)]
    ELSE LET tokenStr == Extract(fns[i], r)
         IN  IF tokenStr # EmptyString
             THEN [tokenStr |-> tokenStr, called |-> i]
             ELSE findToken(fns, r, i + 1)

\* classify dropping an error that matches no time-based cause
classifyDropsOther(err) ==
    IF err.kind = "ValidationError"
    THEN IF "ValidationErrorExpired" \in err.Errors THEN ErrExpired
         ELSE IF "ValidationErrorIssuedAt" \in err.Errors THEN ErrIATInvalid
         ELSE IF "ValidationErrorNotValidYet" \in err.Errors THEN ErrNBFInvalid
         ELSE NilErr
    ELSE NilErr

\* classify with the issued-at test ahead of the expiry test
classifyIssuedAtFirst(err) ==
    IF err.kind = "ValidationError"
    THEN IF "ValidationErrorIssuedAt" \in err.Errors THEN ErrIATInvalid
         ELSE IF "ValidationErrorExpired" \in err.Errors THEN ErrExpired
         ELSE IF "ValidationErrorNotValidYet" \in err.Errors THEN ErrNBFInvalid
         ELSE err
    ELSE err

\* the error returned for a failed decode
classify(err) ==
    IF err.kind = "ValidationError"
    THEN IF "ValidationErrorExpired" \in err.Errors THEN ErrExpired
         ELSE IF "ValidationErrorIssuedAt" \in err.Errors THEN ErrIATInvalid
         ELSE IF "ValidationErrorNotValidYet" \in err.Errors THEN ErrNBFInvalid
         ELSE err
    ELSE err

\* checkMethod accepting any signing method
checkMethodAny(token) == NilErr

\* the signing algorithm check of a decoded token
checkMethod(token) == IF token.Method # signer THEN ErrAlgoInvalid ELSE NilErr

\* verifyRequest reporting a missing credential without an error
verifyRequestNilError(r, fns) ==
    LET found == findToken(fns, r, 1)
        consulted == SubSeq(fns, 1, found.called)
    IN  IF found.tokenStr = EmptyString
        THEN [token |-> NilToken, err |-> NilErr,
              consulted |-> consulted, decoded |-> <<>>]
        ELSE LET d == Decode(found.tokenStr)
             IN  [token |-> d.token,
                  err |-> IF d.err # NilErr THEN classify(d.err) ELSE checkMethod(d.token),
                  consulted |-> consulted, decoded |-> <<found.tokenStr>>]

\* verifyRequest returning no token with a decode error
verifyRequestDropsToken(r, fns) ==
    LET found == findToken(fns, r, 1)
        consulted == SubSeq(fns, 1, found.called)
    IN  IF found.tokenStr = EmptyString
        THEN [token |-> NilToken, err |-> ErrNoTokenFound,
              consulted |-> consulted, decoded |-> <<>>]
        ELSE LET d == Decode(found.tokenStr)
             IN  [token |-> IF d.err # NilErr THEN NilToken ELSE d.token,
                  err |-> IF d.err # NilErr THEN classify(d.err) ELSE checkMethod(d.token),
                  consulted |-> consulted, decoded |-> <<found.tokenStr>>]

\* verifyRequest trying the remaining strategies when a credential does not
\* verify
RECURSIVE verifyRequestFallsBackFrom(_, _, _)
verifyRequestFallsBackFrom(r, fns, i) ==
    LET found == findToken(fns, r, i)
    IN  IF found.tokenStr = EmptyString
        THEN [token |-> NilToken, err |-> ErrNoTokenFound,
              consulted |-> fns, decoded |-> <<>>]
        ELSE LET d == Decode(found.tokenStr)
                 err == IF d.err # NilErr THEN classify(d.err) ELSE checkMethod(d.token)
                 rest == verifyRequestFallsBackFrom(r, fns, found.called + 1)
             IN  IF err # NilErr /\ rest.err = NilErr
                 THEN [rest EXCEPT !.decoded = <<found.tokenStr>> \o @]
                 ELSE [token |-> d.token, err |-> err,
                       consulted |-> SubSeq(fns, 1, found.called),
                       decoded |-> <<found.tokenStr>>]

verifyRequestFallsBack(r, fns) == verifyRequestFallsBackFrom(r, fns, 1)

\* (token, err) as returned, with the strategies consulted and the strings
\* handed to the Decoder
verifyRequest(r, fns) ==
    LET found == findToken(fns, r, 1)
        consulted == SubSeq(fns, 1, found.called)
    IN  IF found.tokenStr = EmptyString
        THEN [token |-> NilToken, err |-> ErrNoTokenFound,
              consulted |-> consulted, decoded |-> <<>>]
        ELSE LET d == Decode(found.tokenStr)
             IN  [token |-> d.token,
                  err |-> IF d.err # NilErr THEN classify(d.err) ELSE checkMethod(d.token),
                  consulted |-> consulted, decoded |-> <<found.tokenStr>>]

----------------------------------------------------------------------------
(* hasRole *)

RECURSIVE scanRoles(_, _, _)
scanRoles(role, roles, i) ==
    IF i > Len(roles) THEN FALSE
    ELSE IF roles[i] = role THEN TRUE
    ELSE scanRoles(role, roles, i + 1)

\* hasRole comparing the first role only
hasRoleFirstOnly(role, roles) == Len(roles) > 0 /\ roles[1] = role

\* hasRole returning true for the first role it meets, whatever it is
hasRoleAnyRole(role, roles) == Len(roles) > 0

hasRole(role, roles) == scanRoles(role, roles, 1)

----------------------------------------------------------------------------
(* The middlewares: what a stage does with the context it is entered       *)
(* with. forward: it calls next.ServeHTTP; otherwise it writes resp.       *)

NoResponse == [status |-> 0, body |-> ""]

\* http.Error(w, http.StatusText(401), 401)
Unauthorized == [status |-> StatusUnauthorized, body |-> "Unauthorized"]

HandlerResponse == [status |-> 200, body |-> "handler"]

Forward(c) ==
    [forward |-> TRUE, ctx |-> c, resp |-> NoResponse,
     consulted |-> <<>>, decoded |-> <<>>]

Reject(c, response) ==
    [forward |-> FALSE, ctx |-> c, resp |-> response,
     consulted |-> <<>>, decoded |-> <<>>]

\* verify answering 401 itself when verification failed
verifyRejecting(c, rq, fns) ==
    LET v == verifyRequest(rq, fns)
    IN  IF v.err # NilErr
        THEN [Reject(c, Unauthorized) EXCEPT
                  !.consulted = v.consulted, !.decoded = v.decoded]
        ELSE [Forward(NewContext(c, v.token, v.err)) EXCEPT
                  !.consulted = v.consulted, !.decoded = v.decoded]

\* verify attaching the outcome to a fresh context instead of the request's
verifyFreshContext(c, rq, fns) ==
    LET v == verifyRequest(rq, fns)
    IN  [Forward(NewContext(EmptyContext, v.token, v.err)) EXCEPT
             !.consulted = v.consulted, !.decoded = v.decoded]

verify(c, rq, fns) ==
    LET v == verifyRequest(rq, fns)
    IN  [Forward(NewContext(c, v.token, v.err)) EXCEPT
             !.consulted = v.consulted, !.decoded = v.decoded]

\* Authenticate without the test of the token's validity flag
AuthenticateIgnoresValid(c) ==
    LET t == TokenFromContext(c)
    IN  IF t.err # NilErr THEN Reject(c, Unauthorized)
        ELSE IF t.token.nil THEN Reject(c, Unauthorized)
        ELSE LET p == ParseClaims(t.claims)
             IN  IF p.err # NilErr THEN Reject(c, Unauthorized)
                 ELSE Forward(WithValue(c, "AccessClaimsCtxKey", p.c))

\* Authenticate answering with the text of the recorded error
AuthenticateLeaksError(c) ==
    LET t == TokenFromContext(c)
    IN  IF t.err # NilErr
        THEN Reject(c, [status |-> StatusUnauthorized, body |-> t.err.kind])
        ELSE IF t.token.nil \/ ~t.token.Valid THEN Reject(c, Unauthorized)
        ELSE LET p == ParseClaims(t.claims)
             IN  IF p.err # NilErr THEN Reject(c, Unauthorized)
                 ELSE Forward(WithValue(c, "AccessClaimsCtxKey", p.c))

\* Authenticate attaching the claims to a fresh context instead of the
\* request's
AuthenticateResetsContext(c) ==
    LET t == TokenFromContext(c)
    IN  IF t.err # NilErr THEN Reject(c, Unauthorized)
        ELSE IF t.token.nil \/ ~t.token.Valid THEN Reject(c, Unauthorized)
        ELSE LET p == ParseClaims(t.claims)
             IN  IF p.err # NilErr THEN Reject(c, Unauthorized)
                 ELSE Forward(WithValue(EmptyContext, "AccessClaimsCtxKey", p.c))

\* Authenticate passing the request on without the context that holds the
\* claims
AuthenticateDropsClaims(c) ==
    LET t == TokenFromContext(c)
    IN  IF t.err # NilErr THEN Reject(c, Unauthorized)
        ELSE IF t.token.nil \/ ~t.token.Valid THEN Reject(c, Unauthorized)
        ELSE LET p == ParseClaims(t.claims)
             IN  IF p.err # NilErr THEN Reject(c, Unauthorized)
                 ELSE Forward(c)

\* Authenticate without the return after the first http.Error
AuthenticateNoReturn(c) ==
    LET t == TokenFromContext(c)
    IN  IF t.err # NilErr
        THEN [Reject(c, Unauthorized) EXCEPT !.forward = ~t.token.nil /\ t.token.Valid]
        ELSE IF t.token.nil \/ ~t.token.Valid THEN Reject(c, Unauthorized)
        ELSE LET p == ParseClaims(t.claims)
             IN  IF p.err # NilErr THEN Reject(c, Unauthorized)
                 ELSE Forward(WithValue(c, "AccessClaimsCtxKey", p.c))

Authenticate(c) ==
    LET t == TokenFromContext(c)
    IN  IF t.err # NilErr THEN Reject(c, Unauthorized)
        ELSE IF t.token.nil \/ ~t.token.Valid THEN Reject(c, Unauthorized)
        ELSE LET p == ParseClaims(t.claims)
             IN  IF p.err # NilErr THEN Reject(c, Unauthorized)
                 ELSE Forward(WithValue(c, "AccessClaimsCtxKey", p.c))

\* RequiresRole letting a request with an empty role list through
RequiresRoleOpenWhenEmpty(role, c) ==
    LET claims == AppClaimsFromCtx(c)
    IN  IF Len(claims.Roles) > 0 /\ ~hasRole(role, claims.Roles)
        THEN Reject(c, Unauthorized)
        ELSE Forward(c)

\* RequiresRole passing the request on with a fresh context
RequiresRoleDropsContext(role, c) ==
    LET claims == AppClaimsFromCtx(c)
    IN  IF ~hasRole(role, claims.Roles) THEN Reject(c, Unauthorized)
        ELSE Forward(EmptyContext)

RequiresRole(role, c) ==
    LET claims == AppClaimsFromCtx(c)
    IN  IF ~hasRole(role, claims.Roles) THEN Reject(c, Unauthorized)
        ELSE Forward(c)

----------------------------------------------------------------------------
(* Configuration, set once at startup *)

VerifyStage == [kind |-> "Verify", role |-> ""]

AuthenticateStage == [kind |-> "Authenticate", role |-> ""]

RequiresRoleStage(role) == [kind |-> "RequiresRole", role |-> role]

\* Verify, Authenticate and one Role Gate per role of gates, in that order
GateChain(gates) ==
    <<VerifyStage, AuthenticateStage>>
        \o [i \in 1..Len(gates) |-> RequiresRoleStage(gates[i])]

Chains ==
    {GateChain(gates) : gates \in SeqsUpTo(Roles, MaxGates)}
        \cup {<<VerifyStage>>,
              <<AuthenticateStage>>,
              <<VerifyStage, VerifyStage, AuthenticateStage>>,
              <<VerifyStage, AuthenticateStage, AuthenticateStage>>}
        \cup {<<RequiresRoleStage(role)>> : role \in Roles}
        \cup {<<VerifyStage, RequiresRoleStage(role), AuthenticateStage>> : role \in Roles}

\* the chains and requests of the runs that handle two requests at once
PairChains ==
    {<<VerifyStage, AuthenticateStage, RequiresRoleStage(role)>> : role \in Roles}

SampleDecodeResults ==
    {[token |-> PartialToken, err |-> [kind |-> "ValidationError", Errors |-> {c}]] :
        c \in ValidationCauses}
        \cup {[token |-> NilToken, err |-> [kind |-> "error", Errors |-> {}]],
              [token |-> [GoodToken(<<"admin">>) EXCEPT !.Method = "RS256"], err |-> NilErr],
              [token |-> [GoodToken(<<"admin">>) EXCEPT !.Valid = FALSE], err |-> NilErr],
              [token |-> [GoodToken(<<>>) EXCEPT !.Claims = EmptyRawClaims], err |-> NilErr],
              [token |-> GoodToken(<<"admin">>), err |-> NilErr],
              [token |-> GoodToken(<<"editor">>), err |-> NilErr]}

PairInputs ==
    {Request(EmptyString, NoHeader, EmptyString)}
        \cup {Request(EmptyString, Bearer(<<d>>), EmptyString) : d \in SampleDecodeResults}

Inputs(ids) == IF Cardinality(ids) = 1 THEN RequestInputs ELSE PairInputs

FnsConfigs ==
    {DefaultFns,
     <<>>,
     <<"TokenFromHeader">>,
     <<"TokenFromCookie", "TokenFromQuery">>,
     <<"TokenFromCookie", "TokenFromHeader", "TokenFromQuery">>}

----------------------------------------------------------------------------
(* The server *)

Init ==
    /\ findTokenFns \in FnsConfigs
    /\ chain \in Chains
    /\ live = {1}
    /\ req = [r \in live |-> NoRequest]
    /\ ctx = [r \in live |-> EmptyContext]
    /\ pos = [r \in live |-> 0]
    /\ resp = [r \in live |-> NoResponse]
    /\ log = [r \in live |-> <<>>]

\* a request arrives and is handed to the outermost stage
Arrive(r) ==
    /\ ~req[r].present
    /\ \E rq \in Inputs(live) : req' = [req EXCEPT ![r] = rq]
    /\ pos' = [pos EXCEPT ![r] = 1]
    /\ UNCHANGED <<findTokenFns, chain, live, ctx, resp, log>>

AtStage(r, kind) ==
    /\ req[r].present
    /\ resp[r] = NoResponse
    /\ pos[r] \in DOMAIN chain
    /\ chain[pos[r]].kind = kind

\* Ran keeping the context in one place shared by all requests
RanSharedContext(r, res) ==
    /\ log' = [log EXCEPT ![r] =
                 Append(@, [stage |-> pos[r], kind |-> chain[pos[r]].kind,
                            role |-> chain[pos[r]].role,
                            forward |-> res.forward, resp |-> res.resp,
                            consulted |-> res.consulted, decoded |-> res.decoded,
                            ctxIn |-> ctx[r], ctxOut |-> res.ctx])]
    /\ ctx' = [q \in live |-> IF res.forward THEN res.ctx ELSE ctx[q]]
    /\ pos' = [pos EXCEPT ![r] = IF res.forward THEN @ + 1 ELSE @]
    /\ resp' = [resp EXCEPT ![r] = res.resp]
    /\ UNCHANGED <<findTokenFns, chain, live, req>>

\* the stage at pos[r] ran with result res
Ran(r, res) ==
    /\ log' = [log EXCEPT ![r] =
                 Append(@, [stage |-> pos[r], kind |-> chain[pos[r]].kind,
                            role |-> chain[pos[r]].role,
                            forward |-> res.forward, resp |-> res.resp,
                            consulted |-> res.consulted, decoded |-> res.decoded,
                            ctxIn |-> ctx[r], ctxOut |-> res.ctx])]
    /\ ctx' = [ctx EXCEPT ![r] = IF res.forward THEN res.ctx ELSE @]
    /\ pos' = [pos EXCEPT ![r] = IF res.forward THEN @ + 1 ELSE @]
    /\ resp' = [resp EXCEPT ![r] = res.resp]
    /\ UNCHANGED <<findTokenFns, chain, live, req>>

Verify(r) ==
    /\ AtStage(r, "Verify")
    /\ Ran(r, verify(ctx[r], req[r], findTokenFns))

AuthenticateStep(r) ==
    /\ AtStage(r, "Authenticate")
    /\ Ran(r, Authenticate(ctx[r]))

RequiresRoleStep(r) ==
    /\ AtStage(r, "RequiresRole")
    /\ Ran(r, RequiresRole(chain[pos[r]].role, ctx[r]))

\* the terminal handler behind the last stage
Handler(r) ==
    /\ req[r].present
    /\ resp[r] = NoResponse
    /\ pos[r] = Len(chain) + 1
    /\ log' = [log EXCEPT ![r] =
                 Append(@, [stage |-> pos[r], kind |-> "Handler", role |-> "",
                            forward |-> FALSE, resp |-> HandlerResponse,
                            consulted |-> <<>>, decoded |-> <<>>,
                            ctxIn |-> ctx[r], ctxOut |-> ctx[r]])]
    /\ resp' = [resp EXCEPT ![r] = HandlerResponse]
    /\ UNCHANGED <<findTokenFns, chain, live, req, ctx, pos>>

Next ==
    \/ \E r \in live : Arrive(r)
    \/ \E r \in live : Verify(r)
    \/ \E r \in live : AuthenticateStep(r)
    \/ \E r \in live : RequiresRoleStep(r)
    \/ \E r \in live : Handler(r)

Spec == Init /\ [][Next]_vars

\* two requests handled at once, their stage steps interleaved
InitPair ==
    /\ findTokenFns = DefaultFns
    /\ chain \in PairChains
    /\ live = {1, 2}
    /\ req = [r \in live |-> NoRequest]
    /\ ctx = [r \in live |-> EmptyContext]
    /\ pos = [r \in live |-> 0]
    /\ resp = [r \in live |-> NoResponse]
    /\ log = [r \in live |-> <<>>]

SpecPair == InitPair /\ [][Next]_vars

----------------------------------------------------------------------------
(* Properties *)

\* the verification outcome attached to context c
Outcome(c) == Value(c, "TokenCtxKey")

\* no configured strategy yields a credential for request rq
NoCredential(rq) ==
    \A i \in DOMAIN findTokenFns : Extract(findTokenFns[i], rq) = EmptyString

\* strategy i is the first one, in the configured order, that yields a
\* non-empty string for request rq
IsFirst(i, rq) ==
    /\ Extract(findTokenFns[i], rq) # EmptyString
    /\ \A j \in 1..(i - 1) : Extract(findTokenFns[j], rq) = EmptyString

\* the credential located for rq, when there is one
Located(rq) ==
    Extract(findTokenFns[CHOOSE i \in DOMAIN findTokenFns : IsFirst(i, rq)], rq)

\* the ClassifiedError an error value stands for
Class(err) ==
    CASE err = NilErr -> "none"
      [] err = ErrNoTokenFound -> "NoCredentialFound"
      [] err = ErrExpired -> "Expired"
      [] err = ErrIATInvalid -> "IssuedAtInvalid"
      [] err = ErrNBFInvalid -> "NotYetValid"
      [] err = ErrAlgoInvalid -> "AlgorithmMismatch"
      [] err.kind \in {"ValidationError", "error"} -> "OtherDecodeError"
      [] OTHER -> "unclassified"

\* the failure causes a decode error reports
Causes(err) == IF err.kind = "ValidationError" THEN err.Errors ELSE {}

\* every Authenticate run of request r after log entry k answered 401
AuthenticatorRejectsAfter(r, k) ==
    \A m \in DOMAIN log[r] :
        (m > k /\ log[r][m].kind = "Authenticate")
            => /\ ~log[r][m].forward
               /\ log[r][m].resp = Unauthorized
               /\ resp[r] = Unauthorized

\* C1: the credential the Verifier decodes is the value of the first
\* strategy, in the configured order, that yields a non-empty string; the
\* strategies after it are not consulted, empty results are skipped, and
\* the default order is query parameter, Authorization header, cookie.
C1_FirstNonEmptyStrategyWins ==
    \A r \in live : \A k \in DOMAIN log[r] :
        LET e == log[r][k]
            rq == req[r]
        IN  e.kind = "Verify" =>
              /\ \A i \in DOMAIN findTokenFns :
                    IsFirst(i, rq) =>
                      /\ e.decoded = <<Extract(findTokenFns[i], rq)>>
                      /\ e.consulted = SubSeq(findTokenFns, 1, i)
                      /\ Outcome(e.ctxOut).token = Decode(Extract(findTokenFns[i], rq)).token
              /\ findTokenFns = DefaultFns =>
                    e.decoded =
                        IF TokenFromQuery(rq) # EmptyString THEN <<TokenFromQuery(rq)>>
                        ELSE IF TokenFromHeader(rq) # EmptyString THEN <<TokenFromHeader(rq)>>
                        ELSE IF TokenFromCookie(rq) # EmptyString THEN <<TokenFromCookie(rq)>>
                        ELSE <<>>

\* C1 witness: under the default order a request with no query credential,
\* a Bearer credential and a different cookie credential had the header's
\* credential decoded and the cookie strategy not consulted.
C1_Witness ==
    \E r \in live : \E k \in DOMAIN log[r] :
        /\ log[r][k].kind = "Verify"
        /\ findTokenFns = DefaultFns
        /\ req[r].query = EmptyString
        /\ req[r].header.scheme = "BEARER"
        /\ req[r].cookie = GoodCredential
        /\ req[r].header.value # GoodCredential
        /\ log[r][k].decoded = <<req[r].header.value>>
        /\ log[r][k].consulted = <<"TokenFromQuery", "TokenFromHeader">>

\* C2: with zero strategies, or when every strategy yields the empty
\* string, the outcome is (no token, NoCredentialFound), the Decoder is not
\* invoked, and an Authenticator after the Verifier answers 401.
C2_NoCredentialFound ==
    \A r \in live : \A k \in DOMAIN log[r] :
        LET e == log[r][k]
        IN  (e.kind = "Verify" /\ NoCredential(req[r])) =>
              /\ Outcome(e.ctxOut) = [token |-> NilToken, err |-> ErrNoTokenFound]
              /\ e.decoded = <<>>
              /\ AuthenticatorRejectsAfter(r, k)

\* C2 witness: a Verifier configured with zero strategies recorded
\* NoCredentialFound for a request that carries a valid credential, and the
\* Authenticator behind it answered 401.
C2_Witness ==
    \E r \in live : \E k, m \in DOMAIN log[r] :
        /\ findTokenFns = <<>>
        /\ req[r].query = GoodCredential
        /\ log[r][k].kind = "Verify"
        /\ Outcome(log[r][k].ctxOut).err = ErrNoTokenFound
        /\ m > k
        /\ log[r][m].kind = "Authenticate"
        /\ resp[r] = Unauthorized

\* C3: the Verifier never rejects: whatever the outcome, it writes no
\* response, attaches the outcome to the context and invokes the next stage
\* exactly once, with that context.
C3_VerifierAlwaysForwards ==
    \A r \in live : \A k \in DOMAIN log[r] :
        LET e == log[r][k]
        IN  e.kind = "Verify" =>
              /\ e.forward
              /\ e.resp = NoResponse
              /\ Len(e.ctxOut) = Len(e.ctxIn) + 1
              /\ e.ctxOut[Len(e.ctxOut)].key = "TokenCtxKey"
              /\ pos[r] > e.stage
              /\ Cardinality({m \in DOMAIN log[r] : log[r][m].stage = e.stage + 1}) <= 1
              /\ \A m \in DOMAIN log[r] :
                    log[r][m].stage = e.stage + 1 => log[r][m].ctxIn = e.ctxOut
              /\ resp[r] = Unauthorized =>
                    \E m \in DOMAIN log[r] : m > k /\ log[r][m].resp = Unauthorized

\* C3 witness: a Verifier that recorded Expired forwarded, and the stage
\* behind it ran.
C3_Witness ==
    \E r \in live : \E k, m \in DOMAIN log[r] :
        /\ log[r][k].kind = "Verify"
        /\ log[r][k].forward
        /\ Outcome(log[r][k].ctxOut).err = ErrExpired
        /\ log[r][m].stage = log[r][k].stage + 1

\* C4: a decode failure is classified by fixed precedence over the causes
\* it reports: Expired, else IssuedAtInvalid, else NotYetValid, else
\* OtherDecodeError.
C4_ClassificationPrecedence ==
    \A r \in live : \A k \in DOMAIN log[r] :
        LET e == log[r][k]
        IN  (e.kind = "Verify" /\ ~NoCredential(req[r])
                /\ Decode(Located(req[r])).err # NilErr) =>
              LET causes == Causes(Decode(Located(req[r])).err)
              IN  Class(Outcome(e.ctxOut).err) =
                    IF "ValidationErrorExpired" \in causes THEN "Expired"
                    ELSE IF "ValidationErrorIssuedAt" \in causes THEN "IssuedAtInvalid"
                    ELSE IF "ValidationErrorNotValidYet" \in causes THEN "NotYetValid"
                    ELSE "OtherDecodeError"

\* C4 witness: a decode failure reporting the expiry, issued-at and
\* not-before causes together was recorded as Expired.
C4_Witness ==
    \E r \in live : \E k \in DOMAIN log[r] :
        /\ log[r][k].kind = "Verify"
        /\ ~NoCredential(req[r])
        /\ Causes(Decode(Located(req[r])).err) =
              {"ValidationErrorExpired", "ValidationErrorIssuedAt",
               "ValidationErrorNotValidYet"}
        /\ Outcome(log[r][k].ctxOut).err = ErrExpired

\* C5: a decoded token whose signing method is not the configured one is
\* recorded as (token, AlgorithmMismatch), and an Authenticator after the
\* Verifier answers 401, also when the token's validity flag is true.
C5_AlgorithmMismatch ==
    \A r \in live : \A k \in DOMAIN log[r] :
        LET e == log[r][k]
        IN  (e.kind = "Verify" /\ ~NoCredential(req[r])
                /\ Decode(Located(req[r])).err = NilErr
                /\ Decode(Located(req[r])).token.Method # signer) =>
              /\ Outcome(e.ctxOut) =
                    [token |-> Decode(Located(req[r])).token, err |-> ErrAlgoInvalid]
              /\ AuthenticatorRejectsAfter(r, k)

\* C5 witness: a token of another signing method, valid and with claims
\* that parse, was recorded as AlgorithmMismatch and the Authenticator behind
\* the Verifier answered 401.
C5_Witness ==
    \E r \in live : \E k, m \in DOMAIN log[r] :
        /\ log[r][k].kind = "Verify"
        /\ Outcome(log[r][k].ctxOut).err = ErrAlgoInvalid
        /\ Outcome(log[r][k].ctxOut).token.Valid
        /\ Outcome(log[r][k].ctxOut).token.Claims.shaped
        /\ m > k
        /\ log[r][m].kind = "Authenticate"
        /\ ~log[r][m].forward
        /\ resp[r] = Unauthorized

ClassifiedErrors ==
    {"none", "NoCredentialFound", "Expired", "IssuedAtInvalid", "NotYetValid",
     "AlgorithmMismatch", "OtherDecodeError"}

\* C6: every outcome carries one value of the closed set, and it is none
\* exactly when a credential was found, the Decoder returned no error and
\* the token's signing method is the configured one.
C6_ClosedOutcomeSet ==
    \A r \in live : \A k \in DOMAIN log[r] :
        LET e == log[r][k]
        IN  e.kind = "Verify" =>
              /\ Class(Outcome(e.ctxOut).err) \in ClassifiedErrors
              /\ Class(Outcome(e.ctxOut).err) = "none" <=>
                    /\ ~NoCredential(req[r])
                    /\ Decode(Located(req[r])).err = NilErr
                    /\ Decode(Located(req[r])).token.Method = signer

\* C6 witness: a decode failure with no time-based cause was recorded as
\* OtherDecodeError.
C6_Witness ==
    \E r \in live : \E k \in DOMAIN log[r] :
        /\ log[r][k].kind = "Verify"
        /\ ~NoCredential(req[r])
        /\ Decode(Located(req[r])).err.kind = "error"
        /\ Class(Outcome(log[r][k].ctxOut).err) = "OtherDecodeError"

\* context c holds an outcome with no error and a present, valid token
\* whose claims parse
Authenticated(c) ==
    /\ HasValue(c, "TokenCtxKey")
    /\ Outcome(c).err = NilErr
    /\ ~Outcome(c).token.nil
    /\ Outcome(c).token.Valid
    /\ ParseClaims(Outcome(c).token.Claims).err = NilErr

\* C7: the Authenticator invokes the next stage exactly when the context
\* holds an outcome with no error and a present, valid token whose claims
\* parse; in every other case it answers 401 and the next stage never runs.
C7_AuthenticatorDecision ==
    \A r \in live : \A k \in DOMAIN log[r] :
        LET e == log[r][k]
        IN  e.kind = "Authenticate" =>
              /\ e.forward <=> Authenticated(e.ctxIn)
              /\ e.forward => (e.resp = NoResponse /\ pos[r] > e.stage)
              /\ ~e.forward =>
                    /\ e.resp = Unauthorized
                    /\ resp[r] = Unauthorized
                    /\ k = Len(log[r])
                    /\ pos[r] = e.stage

\* C7 witness: an outcome with no error and a present token whose validity
\* flag is false, with claims that parse, was answered 401.
C7_Witness ==
    \E r \in live : \E k \in DOMAIN log[r] :
        /\ log[r][k].kind = "Authenticate"
        /\ HasValue(log[r][k].ctxIn, "TokenCtxKey")
        /\ Outcome(log[r][k].ctxIn).err = NilErr
        /\ ~Outcome(log[r][k].ctxIn).token.nil
        /\ ~Outcome(log[r][k].ctxIn).token.Valid
        /\ Outcome(log[r][k].ctxIn).token.Claims.shaped
        /\ ~log[r][k].forward
        /\ resp[r] = Unauthorized

\* request r was answered by a stage of the pipeline, not by the handler
Rejected(r) ==
    /\ resp[r] # NoResponse
    /\ log[r] # <<>>
    /\ log[r][Len(log[r])].kind # "Handler"

\* C8: all rejections look alike: any two rejected requests, whatever the
\* recorded error, the claims parse result or the stage that refused them,
\* got the same response, status 401 with the generic status text.
C8_UniformRejection ==
    \A r1, r2 \in live :
        (Rejected(r1) /\ Rejected(r2)) =>
            /\ resp[r1] = resp[r2]
            /\ resp[r1] = [status |-> StatusUnauthorized, body |-> "Unauthorized"]

\* C8 witness: one request was rejected by the Authenticator for an Expired
\* outcome, another by the Role Gate.
C8_Witness ==
    \E r1, r2 \in live :
        /\ r1 # r2
        /\ Rejected(r1)
        /\ Rejected(r2)
        /\ log[r1][Len(log[r1])].kind = "Authenticate"
        /\ Outcome(ctx[r1]).err = ErrExpired
        /\ log[r2][Len(log[r2])].kind = "RequiresRole"

Range(seq) == {seq[i] : i \in DOMAIN seq}

\* C9: a Role Gate for role R invokes the next stage exactly when R equals
\* some element of the role list of the AppClaims on the context, and
\* otherwise answers 401 without invoking it; lists with the same elements,
\* in any order and with any duplicates, get the same decision.
C9_RoleGateMembership ==
    \A r \in live : \A k \in DOMAIN log[r] :
        LET e == log[r][k]
            roles == AppClaimsFromCtx(e.ctxIn).Roles
        IN  e.kind = "RequiresRole" =>
              /\ e.forward <=> \E i \in DOMAIN roles : roles[i] = e.role
              /\ e.forward => (e.resp = NoResponse /\ pos[r] > e.stage)
              /\ ~e.forward =>
                    /\ e.resp = Unauthorized
                    /\ resp[r] = Unauthorized
                    /\ k = Len(log[r])
                    /\ pos[r] = e.stage
              /\ \A rl \in RoleLists :
                    Range(rl) = Range(roles) =>
                        RequiresRole(e.role,
                            WithValue(EmptyContext, "AccessClaimsCtxKey",
                                      [Sub |-> "acct", Roles |-> rl])).forward
                          = e.forward

\* C9 witness: a gate requiring admin forwarded a request whose role list
\* is editor, admin.
C9_Witness ==
    \E r \in live : \E k \in DOMAIN log[r] :
        /\ log[r][k].kind = "RequiresRole"
        /\ log[r][k].role = "admin"
        /\ AppClaimsFromCtx(log[r][k].ctxIn).Roles = <<"editor", "admin">>
        /\ log[r][k].forward

\* C10: a Role Gate entered with no AppClaims on the context answers 401
\* whatever role it requires, so the handler behind a Role Gate runs only
\* after an Authenticator ahead of that gate forwarded the request.
C10_GateNeedsAuthenticator ==
    \A r \in live : \A k \in DOMAIN log[r] :
        LET e == log[r][k]
        IN  /\ (e.kind = "RequiresRole" /\ ~HasValue(e.ctxIn, "AccessClaimsCtxKey")) =>
                  /\ ~e.forward
                  /\ e.resp = Unauthorized
                  /\ resp[r] = Unauthorized
            /\ e.kind = "Handler" =>
                  \A j \in 1..(k - 1) :
                      log[r][j].kind = "RequiresRole" =>
                          \E i \in 1..(j - 1) :
                              log[r][i].kind = "Authenticate" /\ log[r][i].forward

\* C10 witness: a Role Gate placed ahead of the Authenticator answered 401
\* to a request whose credential is fully valid and carries the role.
C10_Witness ==
    \E r \in live : \E k \in DOMAIN log[r] :
        /\ log[r][k].kind = "RequiresRole"
        /\ ~HasValue(log[r][k].ctxIn, "AccessClaimsCtxKey")
        /\ HasValue(log[r][k].ctxIn, "TokenCtxKey")
        /\ Authenticated(log[r][k].ctxIn)
        /\ log[r][k].role \in Range(Outcome(log[r][k].ctxIn).token.Claims.roles)
        /\ ~log[r][k].forward
        /\ resp[r] = Unauthorized

\* the roles required by the Role Gates of the chain, in chain order
RECURSIVE GateRolesFrom(_)
GateRolesFrom(i) ==
    IF i > Len(chain) THEN <<>>
    ELSE IF chain[i].kind = "RequiresRole"
         THEN <<chain[i].role>> \o GateRolesFrom(i + 1)
         ELSE GateRolesFrom(i + 1)

\* the chain is Verify, Authenticate and then one or more Role Gates
IsGateChain ==
    /\ Len(chain) >= 3
    /\ chain = GateChain(GateRolesFrom(1))

\* whether a request entering Role Gates for the roles gates, chained in
\* that order, with context c gets through all of them
RECURSIVE GatesPass(_, _)
GatesPass(gates, c) ==
    IF gates = <<>> THEN TRUE
    ELSE LET res == RequiresRole(Head(gates), c)
         IN  res.forward /\ GatesPass(Tail(gates), res.ctx)

\* C11: chained Role Gates compose as AND: behind an Authenticator that
\* forwarded, the handler runs exactly when every required role is in the
\* claims' role list, the 401 comes from the first gate whose role is
\* missing, and chaining the same gates in another order reaches the
\* handler in the same cases.
C11_GatesComposeAsAnd ==
    \A r \in live :
        (IsGateChain /\ Len(log[r]) >= 2 /\ log[r][2].forward) =>
            LET c == log[r][2].ctxOut
                roles == Range(AppClaimsFromCtx(c).Roles)
                gates == GateRolesFrom(1)
                last == log[r][Len(log[r])]
            IN  /\ resp[r] # NoResponse =>
                      /\ resp[r] = HandlerResponse <=> Range(gates) \subseteq roles
                      /\ resp[r] = HandlerResponse <=> last.kind = "Handler"
                      /\ resp[r] # HandlerResponse =>
                            /\ resp[r] = Unauthorized
                            /\ last.kind = "RequiresRole"
                            /\ last.role \notin roles
                            /\ \A i \in 3..(last.stage - 1) : chain[i].role \in roles
                /\ \A other \in SeqsUpTo(Roles, MaxGates) :
                      Range(other) = Range(gates) =>
                          GatesPass(other, c) = (Range(gates) \subseteq roles)

\* C11 witness: behind gates for admin and then editor, a request holding
\* only admin passed the first gate and was answered 401 by the second.
C11_Witness ==
    \E r \in live :
        /\ chain = GateChain(<<"admin", "editor">>)
        /\ Len(log[r]) = 4
        /\ AppClaimsFromCtx(ctx[r]).Roles = <<"admin">>
        /\ log[r][3].forward
        /\ ~log[r][4].forward
        /\ resp[r] = Unauthorized

\* the number of values attached to context c under key
Count(c, key) == Cardinality({i \in DOMAIN c : c[i].key = key})

\* the log entries of request r that are runs of a stage of this kind
RunsOf(r, kind) == {k \in DOMAIN log[r] : log[r][k].kind = kind}

\* context a is context b or an earlier state of it
IsPrefix(a, b) == Len(a) <= Len(b) /\ SubSeq(b, 1, Len(a)) = a

\* no stage of request r removed or changed what an earlier stage attached
ContextOnlyGrows(r) ==
    \A k \in DOMAIN log[r] :
        /\ IsPrefix(log[r][k].ctxIn, log[r][k].ctxOut)
        /\ IsPrefix(log[r][k].ctxIn, ctx[r])
        /\ log[r][k].forward => IsPrefix(log[r][k].ctxOut, ctx[r])

\* C12 as stated: the context carries at most one outcome and at most one
\* AppClaims, each written at most once, and nothing attached is changed.
C12_AtMostOneOfEach ==
    \A r \in live :
        /\ Count(ctx[r], "TokenCtxKey") <= 1
        /\ Count(ctx[r], "AccessClaimsCtxKey") <= 1
        /\ ContextOnlyGrows(r)

\* C12 amended: the outcome is attached only by a Verifier run and the
\* AppClaims only by a forwarding Authenticator run, one value per run, so
\* a chain with one Verifier and one Authenticator carries at most one of
\* each; a chain that repeats a stage attaches one more value per run,
\* and in every chain nothing attached earlier is removed or changed.
C12_OnePerStageRun ==
    \A r \in live :
        /\ Count(ctx[r], "TokenCtxKey") = Cardinality(RunsOf(r, "Verify"))
        /\ Count(ctx[r], "AccessClaimsCtxKey") =
              Cardinality({k \in RunsOf(r, "Authenticate") : log[r][k].forward})
        /\ Cardinality({i \in DOMAIN chain : chain[i].kind = "Verify"}) <= 1
              => Count(ctx[r], "TokenCtxKey") <= 1
        /\ Cardinality({i \in DOMAIN chain : chain[i].kind = "Authenticate"}) <= 1
              => Count(ctx[r], "AccessClaimsCtxKey") <= 1
        /\ ContextOnlyGrows(r)

\* C12 witness: behind two Verifiers and an Authenticator the handler ran
\* with a context holding two outcomes and one AppClaims, the first
\* outcome still as the first Verifier attached it.
C12_Witness ==
    \E r \in live :
        /\ resp[r] = HandlerResponse
        /\ Count(ctx[r], "TokenCtxKey") = 2
        /\ Count(ctx[r], "AccessClaimsCtxKey") = 1
        /\ <<ctx[r][1]>> = log[r][1].ctxOut

\* what stage i of the chain does with request rq and context c
StageResult(i, c, rq) ==
    CASE chain[i].kind = "Verify" -> verify(c, rq, findTokenFns)
      [] chain[i].kind = "Authenticate" -> Authenticate(c)
      [] chain[i].kind = "RequiresRole" -> RequiresRole(chain[i].role, c)

\* the response to request rq when it runs through the chain alone, from
\* stage i on with context c
RECURSIVE RunAlone(_, _, _)
RunAlone(i, c, rq) ==
    IF i > Len(chain) THEN HandlerResponse
    ELSE LET res == StageResult(i, c, rq)
         IN  IF res.forward THEN RunAlone(i + 1, res.ctx, rq) ELSE res.resp

\* C13: with the stage steps of several requests interleaved, every stage
\* of a request is entered with the context the previous stage of the same
\* request passed on, records the outcome of that request's own
\* credential, and the request is answered as if it had run alone.
C13_RequestsAreIsolated ==
    \A r \in live :
        /\ \A k \in DOMAIN log[r] :
              LET e == log[r][k]
              IN  /\ e.ctxIn = IF k = 1 THEN EmptyContext ELSE log[r][k - 1].ctxOut
                  /\ e.kind = "Verify" =>
                        Outcome(e.ctxOut).err = verifyRequest(req[r], findTokenFns).err
                  /\ e.kind # "Handler" =>
                        e.forward = StageResult(e.stage, e.ctxIn, req[r]).forward
        /\ ctx[r] = IF log[r] = <<>> THEN EmptyContext
                    ELSE IF log[r][Len(log[r])].forward THEN log[r][Len(log[r])].ctxOut
                    ELSE log[r][Len(log[r])].ctxIn
        /\ resp[r] # NoResponse => resp[r] = RunAlone(1, EmptyContext, req[r])
        /\ \A q \in live :
              (req[q] = req[r] /\ resp[q] # NoResponse /\ resp[r] # NoResponse)
                  => resp[q] = resp[r]

\* C13 witness: while one request sat between its Verifier, which recorded
\* Expired, and its Authenticator, the Authenticator of another request
\* forwarded on that request's own error-free outcome.
C13_Witness ==
    \E r, q \in live :
        /\ r # q
        /\ Len(log[q]) = 1
        /\ Outcome(ctx[q]).err = ErrExpired
        /\ Len(log[r]) = 2
        /\ log[r][2].kind = "Authenticate"
        /\ log[r][2].forward
        /\ Outcome(ctx[r]).err = NilErr

\* the number of strings handed to the Decoder in entries 1..k of request r
RECURSIVE DecodeCalls(_, _)
DecodeCalls(r, k) ==
    IF k = 0 THEN 0 ELSE DecodeCalls(r, k - 1) + Len(log[r][k].decoded)

\* C14: retrieving the outcome is repeatable and has no effect: every
\* retrieval made for a request, by whichever Authenticator run, returns
\* the same (token, error) pair, none of them invokes the Decoder, and the
\* retrieval leaves the context as it was.
C14_RetrievalIsIdempotent ==
    \A r \in live :
        /\ \A k, m \in RunsOf(r, "Authenticate") :
              TokenFromContext(log[r][k].ctxIn) = TokenFromContext(log[r][m].ctxIn)
        /\ \A k \in RunsOf(r, "Authenticate") :
              LET e == log[r][k]
              IN  /\ e.decoded = <<>>
                  /\ IsPrefix(e.ctxIn, e.ctxOut)
                  /\ TokenFromContext(e.ctxOut) = TokenFromContext(e.ctxIn)
                  /\ ~e.forward => ctx[r] = e.ctxIn
        /\ DecodeCalls(r, Len(log[r])) <= Cardinality(RunsOf(r, "Verify"))

\* C14 witness: two Authenticators in a row each retrieved the outcome of
\* a verified request, the second one after the first had attached the
\* AppClaims, and both forwarded.
C14_Witness ==
    \E r \in live : \E k, m \in RunsOf(r, "Authenticate") :
        /\ k < m
        /\ log[r][k].forward
        /\ log[r][m].forward
        /\ log[r][m].ctxIn # log[r][k].ctxIn
        /\ DecodeCalls(r, Len(log[r])) = 1

\* request rq carries a located credential that decodes under the
\* configured signing method into a valid token whose claims parse and
\* hold role
FullyValidFor(rq, role) ==
    /\ ~NoCredential(rq)
    /\ LET d == Decode(Located(rq))
       IN  /\ d.err = NilErr
           /\ d.token.Method = signer
           /\ d.token.Valid
           /\ ParseClaims(d.token.Claims).err = NilErr
           /\ role \in Range(ParseClaims(d.token.Claims).c.Roles)

\* request rq carries a credential in the Authorization header only
HeaderOnly(rq) ==
    /\ rq.query = EmptyString
    /\ rq.cookie = EmptyString
    /\ rq.header.scheme = "BEARER"
    /\ rq.header.value # EmptyString

\* C15: in the chain Verifier, Authenticator, Role Gate(R), handler, the
\* handler is invoked exactly for the requests whose credential is located,
\* decodes, has the configured signing method, is valid, has claims that
\* parse and holds R; a request with such a credential in the Authorization
\* header only is never answered 401 and, until the handler has run, a
\* stage of the chain is always ready to run.
C15_EndToEnd ==
    \A r \in live :
        (IsGateChain /\ Len(chain) = 3 /\ req[r].present) =>
            LET ok == FullyValidFor(req[r], chain[3].role)
            IN  /\ resp[r] = HandlerResponse => ok
                /\ resp[r] = Unauthorized => ~ok
                /\ resp[r] = NoResponse => ENABLED Next
                /\ (findTokenFns = DefaultFns /\ HeaderOnly(req[r])
                      /\ FullyValidFor(Request(EmptyString, req[r].header, EmptyString),
                                       chain[3].role))
                      => /\ ok
                         /\ resp[r] # Unauthorized
                         /\ resp[r] = NoResponse => pos[r] \in 1..(Len(chain) + 1)

\* C15 witness: under the default order a request with a valid admin
\* credential in the Authorization header only reached the handler behind a
\* gate requiring admin.
C15_Witness ==
    \E r \in live :
        /\ findTokenFns = DefaultFns
        /\ chain = GateChain(<<"admin">>)
        /\ HeaderOnly(req[r])
        /\ req[r].header.value = GoodCredential
        /\ Len(log[r]) = 4
        /\ log[r][4].kind = "Handler"
        /\ resp[r] = HandlerResponse

\* C16: when a credential was located the outcome holds exactly the token
\* the Decoder returned for it, after a decode failure and after a signing
\* method mismatch as well; only NoCredentialFound is recorded with no
\* token and without a call of the Decoder.
C16_OutcomeKeepsDecodedToken ==
    \A r \in live : \A k \in RunsOf(r, "Verify") :
        LET e == log[r][k]
        IN  /\ ~NoCredential(req[r]) =>
                  /\ Outcome(e.ctxOut).token = Decode(Located(req[r])).token
                  /\ e.decoded = <<Located(req[r])>>
            /\ NoCredential(req[r]) =>
                  /\ Outcome(e.ctxOut).token = NilToken
                  /\ e.decoded = <<>>
            /\ e.decoded = <<>> <=> Outcome(e.ctxOut).err = ErrNoTokenFound

\* C16 witness: an Expired outcome was recorded together with the token
\* the Decoder had returned with the error.
C16_Witness ==
    \E r \in live : \E k \in RunsOf(r, "Verify") :
        /\ Outcome(log[r][k].ctxOut).err = ErrExpired
        /\ Outcome(log[r][k].ctxOut).token = PartialToken
        /\ Decode(Located(req[r])).token = PartialToken

\* C17: a forwarding Authenticator adds the AppClaims to the context and
\* changes nothing else, so the outcome read behind it is the one the
\* Verifier attached; a rejecting Authenticator attaches nothing; a
\* forwarding Role Gate passes the context on as it got it.
C17_StagesPreserveContext ==
    \A r \in live : \A k \in DOMAIN log[r] :
        LET e == log[r][k]
        IN  /\ (e.kind = "Authenticate" /\ e.forward) =>
                  /\ e.ctxOut =
                        Append(e.ctxIn,
                               [key |-> "AccessClaimsCtxKey",
                                val |-> ParseClaims(Outcome(e.ctxIn).token.Claims).c])
                  /\ Outcome(e.ctxOut) = Outcome(e.ctxIn)
                  /\ k < Len(log[r]) => log[r][k + 1].ctxIn = e.ctxOut
            /\ (e.kind = "Authenticate" /\ ~e.forward) =>
                  /\ e.ctxOut = e.ctxIn
                  /\ ctx[r] = e.ctxIn
            /\ (e.kind = "RequiresRole" /\ e.forward) =>
                  /\ e.ctxOut = e.ctxIn
                  /\ k < Len(log[r]) => log[r][k + 1].ctxIn = e.ctxIn

\* C17 witness: the handler behind Verifier, Authenticator and a Role Gate
\* ran with the context the Authenticator had passed on, holding the
\* outcome the Verifier attached.
C17_Witness ==
    \E r \in live :
        /\ Len(log[r]) = 4
        /\ log[r][2].kind = "Authenticate"
        /\ log[r][3].kind = "RequiresRole"
        /\ log[r][4].kind = "Handler"
        /\ log[r][4].ctxIn = log[r][2].ctxOut
        /\ Outcome(log[r][4].ctxIn) = Outcome(log[r][1].ctxOut)

\* C18: every stage that runs either writes the 401 response or invokes
\* the next stage, never both and never neither, and runs at most once, so
\* a run of the chain keeps going until it ends with exactly one 401 from
\* one stage or with exactly one invocation of the handler.
C18_ExactlyOneEnding ==
    \A r \in live :
        LET rejections == {k \in DOMAIN log[r] :
                              log[r][k].kind # "Handler" /\ log[r][k].resp # NoResponse}
            forwards == {k \in DOMAIN log[r] : log[r][k].forward}
            served == RunsOf(r, "Handler")
        IN  /\ \A k \in DOMAIN log[r] :
                  /\ log[r][k].kind # "Handler" =>
                        \/ log[r][k].forward /\ log[r][k].resp = NoResponse
                        \/ ~log[r][k].forward /\ log[r][k].resp = Unauthorized
                  /\ log[r][k].stage = k
            /\ rejections \cap forwards = {}
            /\ Len(log[r]) <= Len(chain) + 1
            /\ resp[r] # NoResponse =>
                  \/ Cardinality(rejections) = 1 /\ served = {} /\ resp[r] = Unauthorized
                  \/ Cardinality(served) = 1 /\ rejections = {}
                        /\ Cardinality(forwards) = Len(chain)
                        /\ resp[r] = HandlerResponse
            /\ resp[r] = NoResponse => (rejections = {} /\ served = {})
            /\ (req[r].present /\ resp[r] = NoResponse) =>
                  ENABLED (Verify(r) \/ AuthenticateStep(r) \/ RequiresRoleStep(r)
                              \/ Handler(r))

\* C18 witness: behind four stages the handler ran once, after every stage
\* had forwarded once and none had written a response.
C18_Witness ==
    \E r \in live :
        /\ Len(chain) = 4
        /\ Len(log[r]) = 5
        /\ \A k \in 1..4 : log[r][k].forward /\ log[r][k].resp = NoResponse
        /\ log[r][5].kind = "Handler"
        /\ resp[r] = HandlerResponse

\* the ClassifiedError verification of decode result d ends with
ExpectedClass(d) ==
    IF d.err # NilErr
    THEN IF "ValidationErrorExpired" \in Causes(d.err) THEN "Expired"
         ELSE IF "ValidationErrorIssuedAt" \in Causes(d.err) THEN "IssuedAtInvalid"
         ELSE IF "ValidationErrorNotValidYet" \in Causes(d.err) THEN "NotYetValid"
         ELSE "OtherDecodeError"
    ELSE IF d.token.Method # signer THEN "AlgorithmMismatch"
    ELSE "none"

\* C19: the Verifier hands at most one credential to the Decoder and does
\* not fall back: when the first non-empty credential fails to decode or
\* has another signing method, the outcome is that credential's error and an
\* Authenticator behind the Verifier answers 401, whatever the channels
\* after it hold.
C19_NoFallback ==
    \A r \in live : \A k \in RunsOf(r, "Verify") :
        LET e == log[r][k]
        IN  /\ Len(e.decoded) <= 1
            /\ (~NoCredential(req[r]) /\ ExpectedClass(Decode(Located(req[r]))) # "none") =>
                  /\ Class(Outcome(e.ctxOut).err) = ExpectedClass(Decode(Located(req[r])))
                  /\ e.decoded = <<Located(req[r])>>
                  /\ AuthenticatorRejectsAfter(r, k)

\* C19 witness: under the default order a request whose query credential
\* does not verify and whose cookie holds a fully valid credential was
\* answered 401 by the Authenticator.
C19_Witness ==
    \E r \in live : \E k \in RunsOf(r, "Authenticate") :
        /\ findTokenFns = DefaultFns
        /\ req[r].query # EmptyString
        /\ ExpectedClass(Decode(req[r].query)) # "none"
        /\ req[r].cookie = GoodCredential
        /\ ~log[r][k].forward
        /\ resp[r] = Unauthorized

====
